---- MODULE Spec2Model ----
(***************************************************************************)
(* Model of streamlit_app.py (Port Orchard Backyard Birds tracker).        *)
(*                                                                         *)
(* The script is re-executed top to bottom on every user event: it loads   *)
(* the reference CSV and the per-user overlay, merges them                 *)
(* (merge_supabase_state), applies a bulk action when its button was       *)
(* clicked, walks the rows writing each row's widget values back into the  *)
(* data frame, and, when "Save Sightings" was clicked, upserts one record  *)
(* per row.                                                                *)
(*                                                                         *)
(* Representation.  A data frame is a sequence of rows.  The CSV columns   *)
(* "Species", "Seen?", "Date first seen", "Notes" are the record fields    *)
(* Species, Seen, Date, Notes.  A species name is a number (only equality  *)
(* of names is ever used).  None / NaN is the string NULL.  A calendar date*)
(* is its ISO string; "no date" is None.                                   *)
(***************************************************************************)
EXTENDS Integers, Sequences, FiniteSets, TLC

VARIABLES
    SUPABASE_ENABLED,   \* module flag, lines 106-115
    csv_file,           \* the rows of the CSV file at data_path
    csv_cached,         \* st.cache_data holds an entry of load_data(data_path)
    csv_df,             \* load_data(data_path): the reference rows
    table,              \* remote table bird_sightings, this user's records by species
    cache,              \* st.cache_data entry of load_state_from_supabase(user_id)
    sb_state_df,        \* the overlay frame handed to merge_supabase_state
    df,                 \* the unified rows of this script run
    raised,             \* merge_supabase_state raised instead of returning
    pc,                 \* position of the script run
    click,              \* the button whose click triggered this run ("none": a widget edit)
    i,                  \* loop index of the render loop / the save loop
    edit,               \* the widget values of the last write-back of this render loop
    sent,               \* update records handed to upsert in this run, in order
    failed,             \* indices of the rows whose upsert raised in this run
    saved,              \* the rows as they were at the last completed save
    fetchOk,            \* the last overlay query returned (no exception)
    saves,              \* completed Save Sightings runs (bounded by MaxSaves)
    csv_saves,          \* completed Save to CSV runs (bounded by MaxCsvSaves)
    events,             \* user events of the session so far (bounded by MaxEvents)
    edits               \* rows rendered with user-set widgets so far (bounded by MaxEdits)

vars == <<SUPABASE_ENABLED, csv_file, csv_cached, csv_df, table, cache, sb_state_df,
          df, raised, pc, click, i, edit, sent, failed, saved, fetchOk, saves,
          csv_saves, events, edits>>

----------------------------------------------------------------------------
(* Bounds of the model *)

\* rows of a reference data set
MaxRef == 2
\* rows of an overlay frame handed to merge_supabase_state
MaxOverlay == 2
\* completed "Save Sightings" runs in a session
MaxSaves == 1
\* completed "Save to CSV" runs in a session
MaxCsvSaves == 1
\* user events (each triggers a script run) in a session
MaxEvents == 2
\* rows rendered with widgets the user has set, in a session
MaxEdits == 1

----------------------------------------------------------------------------
(* Values *)

NULL == "<NULL>"
None == "<None>"

\* Species names: 1..MaxRef are the reference's species (row k of a reference
\* holds species k: the names are unique), 0 is a species only the overlay knows.
RefSpecies == 1..MaxRef
OverlaySpecies == 0..MaxRef

Today == "2026-01-15"
D1 == "2023-05-01"
D2 == "2024-06-02"
BadDate == "5/1/2023"
IsoDates == {Today, D1, D2}

AllCols == {"species", "seen", "first_seen_date", "notes"}

\* str.strip().lower() on the strings of the model
StripLower(s) ==
    CASE s = "Yes" -> "yes"
      [] s = "yes" -> "yes"
      [] s = " YES " -> "yes"
      [] s = "No" -> "no"
      [] OTHER -> s

\* (str(row.get("Seen?", "")).strip().lower() == "yes"), lines 291 and 332
IsYes(s) == StripLower(s) = "yes"

\* pandas notna
NotNa(v) == v # NULL

\* pandas fillna("")
FillNa(v) == IF v = NULL THEN "" ELSE v

----------------------------------------------------------------------------
(* merge_supabase_state, lines 203-223 (the definition in force at line 225; *)
(* lines 38-70 hold the same code)                                           *)

\* DataFrame.empty: no rows or no columns
Empty(frame) == frame.cols = {} \/ Len(frame.rows) = 0

\* SeenToStr with its condition flipped
SeenToStrFlipped(x) == IF x THEN "" ELSE "Yes"

\* lambda x: "Yes" if bool(x) else "", line 211
SeenToStr(x) == IF x THEN "Yes" ELSE ""

\* lines 206-212: the overlay's columns renamed, seen mapped to "Seen?"
RenameState(rec) ==
    [Species  |-> rec.species,
     Seen_sb  |-> SeenToStr(rec.seen),
     Date_sb  |-> rec.first_seen_date,
     Notes_sb |-> rec.notes]

\* the right-hand columns of a left row that has no match: NaN
NoMatch == [Seen_sb |-> NULL, Date_sb |-> NULL, Notes_sb |-> NULL]

JoinRow(r, o) ==
    [Species |-> r.Species, Seen |-> r.Seen, Date |-> r.Date, Notes |-> r.Notes,
     Seen_sb |-> o.Seen_sb, Date_sb |-> o.Date_sb, Notes_sb |-> o.Notes_sb]

\* the rows of `state` whose key equals sp, in the order of `state`
Matches(state, sp) == SelectSeq(state, LAMBDA o : o.Species = sp)

\* base.merge(state, on="Species", how="left", suffixes=("", "_sb")), line 217:
\* the left rows in their order, each once per matching right row (once, with
\* NaN, when none matches)
RECURSIVE LeftMerge(_, _)
LeftMerge(base, state) ==
    IF base = <<>> THEN <<>>
    ELSE LET r == Head(base)
             m == Matches(state, r.Species)
             joined == IF m = <<>> THEN <<JoinRow(r, NoMatch)>>
                       ELSE [k \in 1..Len(m) |-> JoinRow(r, m[k])]
         IN  joined \o LeftMerge(Tail(base), state)

\* Overlaid without the test for the empty string
OverlaidWhenNotNa(sb, own) == IF NotNa(sb) THEN sb ELSE own

\* merged[sb_col].where(merged[sb_col].notna() & (merged[sb_col] != ""), merged[col]),
\* line 221
Overlaid(sb, own) == IF NotNa(sb) /\ sb # "" THEN sb ELSE own

\* lines 218-223 on one merged row: the three columns decided, the _sb columns
\* dropped, NaN filled with ""
Coalesce(j) ==
    [Species |-> j.Species,
     Seen    |-> FillNa(Overlaid(j.Seen_sb, j.Seen)),
     Date    |-> FillNa(Overlaid(j.Date_sb, j.Date)),
     Notes   |-> FillNa(Overlaid(j.Notes_sb, j.Notes))]

\* The result is [raised, rows]: raised when the call ends in an exception.
\*   line 211: state.get("seen", False) is the bool False when the frame has no
\*             "seen" column, and False.apply raises AttributeError;
\*   line 212: selecting a column the frame lacks raises KeyError.
merge_supabase_state(csv, state_df) ==
    IF state_df.none \/ Empty(state_df)
    THEN [raised |-> FALSE, rows |-> csv]
    ELSE IF "seen" \notin state_df.cols
    THEN [raised |-> TRUE, rows |-> <<>>]
    ELSE IF ~ ({"species", "first_seen_date", "notes"} \subseteq state_df.cols)
    THEN [raised |-> TRUE, rows |-> <<>>]
    ELSE LET state  == [k \in 1..Len(state_df.rows) |-> RenameState(state_df.rows[k])]
             merged == LeftMerge(csv, state)
         IN  [raised |-> FALSE,
              rows   |-> [k \in 1..Len(merged) |-> Coalesce(merged[k])]]

----------------------------------------------------------------------------
(* Frames, the remote table, load_state_from_supabase *)

\* state_df is None
NoFrame == [none |-> TRUE, cols |-> {}, rows |-> <<>>]
\* pd.DataFrame(), line 201
BareFrame == [none |-> FALSE, cols |-> {}, rows |-> <<>>]
\* pd.DataFrame(columns=["species","seen","first_seen_date","notes"]), lines 19, 27, 35
NoRowsFrame == [none |-> FALSE, cols |-> AllCols, rows |-> <<>>]

\* The table's records of this user as the query returns them. The table holds
\* one record per (user_id, species); the rows are listed by species (with one
\* record per species the merge does not depend on their order).
RECURSIVE TableRows(_)
TableRows(t) ==
    IF t = {} THEN <<>>
    ELSE LET first == CHOOSE r \in t : \A q \in t : r.species <= q.species
         IN  <<first>> \o TableRows(t \ {first})

\* lines 29-32: seen is a bool column, None / NaN in the other columns becomes ""
Normalize(rec) ==
    [species         |-> rec.species,    \* part of the table's key, never null
     seen            |-> rec.seen,
     first_seen_date |-> FillNa(rec.first_seen_date),
     notes           |-> FillNa(rec.notes)]

\* load_state_from_supabase(user_id), lines 13-35, for a signed-in user with
\* Supabase enabled; ok = FALSE: the query raised (line 34)
load_state_from_supabase(t, ok) ==
    IF ~ok THEN NoRowsFrame
    ELSE LET rows == TableRows(t)
         IN  IF rows = <<>> THEN NoRowsFrame
             ELSE [none |-> FALSE, cols |-> AllCols,
                   rows |-> [k \in 1..Len(rows) |-> Normalize(rows[k])]]

\* upsert(record, on_conflict="user_id,species"), lines 339-341, when it succeeds
Upsert(t, rec) == {r \in t : r.species # rec.species} \cup {rec}

----------------------------------------------------------------------------
(* The render loop's write-back and the Save Sightings record *)

\* lines 294-299: datetime.fromisoformat(row["Date first seen"]).date(), None
\* when the cell is blank or does not parse
ExistingDate(cell) == IF cell \in IsoDates THEN cell ELSE None

\* value=existing_date or date.today(), line 305
DefaultDate(cell) == IF ExistingDate(cell) # None THEN ExistingDate(cell) ELSE Today

\* DateVal reading the date widget whether or not the box is checked
DateValStale(seen_val, widget) == widget

\* lines 302-309: the date widget is asked only when the box is checked
DateVal(seen_val, widget) == IF seen_val THEN widget ELSE None

\* lines 314-316
WriteBack(row, seen_val, date_val, notes_val) ==
    [Species |-> row.Species,
     Seen    |-> IF seen_val THEN "Yes" ELSE "",
     Date    |-> IF date_val # None THEN date_val ELSE "",
     Notes   |-> notes_val]

\* Record without the "or None" of line 333
RecordBlankDate(row) ==
    [species         |-> row.Species,
     seen            |-> IsYes(row.Seen),
     first_seen_date |-> row.Date,
     notes           |-> IF row.Notes = "" THEN "" ELSE row.Notes]

\* lines 329-336 (user_id is the one signed-in user, updated_at is left out)
Record(row) ==
    [species         |-> row.Species,
     seen            |-> IsYes(row.Seen),
     first_seen_date |-> IF row.Date = "" THEN NULL ELSE row.Date,
     notes           |-> IF row.Notes = "" THEN "" ELSE row.Notes]

\* lines 236-239
MarkAllSeen(rows) ==
    [k \in 1..Len(rows) |->
        [Species |-> rows[k].Species, Seen |-> "Yes", Date |-> Today,
         Notes |-> FillNa(rows[k].Notes)]]

\* lines 241-243
ClearAllSeen(rows) ==
    [k \in 1..Len(rows) |->
        [Species |-> rows[k].Species, Seen |-> "", Date |-> "", Notes |-> ""]]

----------------------------------------------------------------------------
(* Inputs *)

N1 == "nest box"
N2 == "at the feeder"

RefRow(sp, v) == [Species |-> sp, Seen |-> v.Seen, Date |-> v.Date, Notes |-> v.Notes]

\* The three mutable cells of a reference row as load_data leaves them
\* (lines 77-81: the columns exist, blanks are ""): untouched, fully filled in,
\* a lower-case flag, a date without the flag, notes alone.
RefVals ==
    { [Seen |-> "",    Date |-> "", Notes |-> ""],
      [Seen |-> "Yes", Date |-> D1, Notes |-> N1],
      [Seen |-> "yes", Date |-> D1, Notes |-> ""],
      [Seen |-> "",    Date |-> D1, Notes |-> ""],
      [Seen |-> "",    Date |-> "", Notes |-> N1] }

\* reference data sets: n <= MaxRef rows, row k holding species k
RefFrames ==
    UNION { { [k \in 1..n |-> RefRow(k, f[k])] : f \in [1..n -> RefVals] } : n \in 0..MaxRef }

\* The three cells of an overlay record: all set, all blank, the flag alone,
\* notes alone beside a null date, a date alone beside null notes.
OverlayVals ==
    { [seen |-> TRUE,  first_seen_date |-> D2,   notes |-> N2],
      [seen |-> FALSE, first_seen_date |-> "",   notes |-> ""],
      [seen |-> TRUE,  first_seen_date |-> "",   notes |-> ""],
      [seen |-> FALSE, first_seen_date |-> NULL, notes |-> N2],
      [seen |-> FALSE, first_seen_date |-> D2,   notes |-> NULL] }

OverlayRecords ==
    { [species |-> sp, seen |-> v.seen, first_seen_date |-> v.first_seen_date,
       notes |-> v.notes] : sp \in OverlaySpecies, v \in OverlayVals }

OverlayRows ==
    UNION { [1..n -> OverlayRecords] : n \in 0..MaxOverlay }

\* Overlay frames handed to merge_supabase_state: None, pd.DataFrame(), frames
\* with the four columns and any rows (records of species the reference lacks,
\* several records of one species), and one-row frames that lack a column.
OverlayFrames ==
    {NoFrame, BareFrame}
    \cup { [none |-> FALSE, cols |-> AllCols, rows |-> rows] : rows \in OverlayRows }
    \cup { [none |-> FALSE, cols |-> AllCols \ {c}, rows |-> <<r>>] :
              c \in AllCols, r \in {q \in OverlayRecords : q.species = 1} }

\* df.to_csv(data_path, index=False), line 322: the rows as the file holds
\* them; an empty string is written as an empty field, which read_csv reads
\* back as NaN
to_csv(rows) ==
    [k \in 1..Len(rows) |->
        [Species |-> rows[k].Species,
         Seen    |-> IF rows[k].Seen = "" THEN NULL ELSE rows[k].Seen,
         Date    |-> IF rows[k].Date = "" THEN NULL ELSE rows[k].Date,
         Notes   |-> IF rows[k].Notes = "" THEN NULL ELSE rows[k].Notes]]

\* load_data(path), lines 74-85, on a file that holds the three columns:
\* pd.read_csv, then fillna("")
load_data(file) ==
    [k \in 1..Len(file) |->
        [Species |-> file[k].Species,
         Seen    |-> FillNa(file[k].Seen),
         Date    |-> FillNa(file[k].Date),
         Notes   |-> FillNa(file[k].Notes)]]

\* The CSV file of a session holds two species. The first row is untouched
\* (empty fields), filled in by an earlier "Save to CSV", or hand-edited: a
\* date without the flag, a lower-case flag beside a date that is not ISO. The
\* second row is untouched.
SessionSpecies == {1, 2}

SessionFileVals ==
    { [Seen |-> NULL,  Date |-> NULL,    Notes |-> NULL],
      [Seen |-> "Yes", Date |-> D1,      Notes |-> N1],
      [Seen |-> NULL,  Date |-> D1,      Notes |-> NULL],
      [Seen |-> "yes", Date |-> BadDate, Notes |-> N1] }

Untouched == [Seen |-> NULL, Date |-> NULL, Notes |-> NULL]

SessionFiles ==
    { [k \in SessionSpecies |-> RefRow(k, IF k = 1 THEN v ELSE Untouched)] : v \in SessionFileVals }

\* what the remote table holds for this user when the session starts
InitTables ==
    { {},
      { [species |-> 1, seen |-> TRUE, first_seen_date |-> D2, notes |-> N2] },
      { [species |-> 0, seen |-> TRUE, first_seen_date |-> D2, notes |-> N2],
        [species |-> 1, seen |-> FALSE, first_seen_date |-> NULL, notes |-> ""] } }

NoEdit == [i |-> 0, seen_val |-> FALSE, widget |-> None, notes_val |-> "", before |-> ""]
NoSave == [has |-> FALSE, allOk |-> FALSE, rows |-> <<>>, ref |-> <<>>]
NoCache == [valid |-> FALSE, frame |-> NoFrame]

----------------------------------------------------------------------------
(* The session *)

Init ==
    /\ SUPABASE_ENABLED \in BOOLEAN
    /\ csv_file \in SessionFiles
    /\ csv_cached = FALSE
    /\ csv_df = <<>>
    /\ table \in IF SUPABASE_ENABLED THEN InitTables ELSE {{}}
    /\ cache = NoCache
    /\ sb_state_df = NoFrame
    /\ df = <<>>
    /\ raised = FALSE
    /\ pc = "data"
    /\ click = "none"
    /\ i = 1
    /\ edit = NoEdit
    /\ sent = <<>>
    /\ failed = {}
    /\ saved = NoSave
    /\ fetchOk = TRUE
    /\ saves = 0
    /\ csv_saves = 0
    /\ events = 0
    /\ edits = 0

\* the buttons a run can have been triggered by: the bulk buttons (lines
\* 232-233), Save to CSV (line 321) and, with Supabase enabled, Save Sightings
\* (lines 326-327); "none": any other event (a checkbox, a date, a text edit)
Clicks ==
    {"none", "mark", "clear"}
    \cup (IF csv_saves < MaxCsvSaves THEN {"csv"} ELSE {})
    \cup (IF SUPABASE_ENABLED /\ saves < MaxSaves THEN {"save"} ELSE {})

\* A new script run: the previous run's data frames are gone; the file, the
\* table and the st.cache_data entries stay. After st.rerun() (line 346) the
\* run starts by itself with no button down; otherwise it is the answer to one
\* user event.
Start ==
    /\ pc \in {"idle", "rerun"}
    /\ pc = "idle" => events < MaxEvents
    /\ events' = IF pc = "idle" THEN events + 1 ELSE events
    /\ click' \in IF pc = "rerun" THEN {"none"} ELSE Clicks
    /\ saved' = IF pc = "rerun" THEN saved ELSE NoSave
    /\ sb_state_df' = NoFrame
    /\ df' = <<>>
    /\ sent' = <<>>
    /\ failed' = {}
    /\ pc' = "data"
    /\ UNCHANGED <<SUPABASE_ENABLED, csv_file, csv_cached, csv_df, table, cache,
                   raised, i, edit, fetchOk, saves, csv_saves,
                   edits>>

\* line 200: csv_df = load_data(data_path); load_data is an st.cache_data
\* function (line 73), so the file is read only when the cache holds no entry
LoadData ==
    /\ pc = "data"
    /\ csv_df' = IF csv_cached THEN csv_df ELSE load_data(csv_file)
    /\ csv_cached' = TRUE
    /\ pc' = "load"
    /\ UNCHANGED <<SUPABASE_ENABLED, csv_file, table, cache, sb_state_df, df, raised,
                   click, i, edit, sent, failed, saved, fetchOk, saves, csv_saves, events, edits>>

\* line 201: the overlay, from st.cache_data when it holds one (line 12)
LoadState ==
    /\ pc = "load"
    /\ IF ~SUPABASE_ENABLED
       THEN /\ sb_state_df' = BareFrame
            /\ UNCHANGED <<cache, fetchOk>>
       ELSE IF cache.valid
       THEN /\ sb_state_df' = cache.frame
            /\ UNCHANGED <<cache, fetchOk>>
       ELSE \E ok \in BOOLEAN :
            /\ sb_state_df' = load_state_from_supabase(table, ok)
            /\ cache' = [valid |-> TRUE, frame |-> sb_state_df']
            /\ fetchOk' = ok
    /\ pc' = "merge"
    /\ UNCHANGED <<SUPABASE_ENABLED, csv_file, csv_cached, csv_df, table, df, raised,
                   click, i, edit, sent, failed, saved, saves, csv_saves, events, edits>>

\* line 225
Merge ==
    /\ pc = "merge"
    /\ LET res == merge_supabase_state(csv_df, sb_state_df)
       IN  /\ df' = res.rows
           /\ raised' = res.raised
           /\ pc' = IF res.raised THEN "crashed" ELSE "bulk"
    /\ UNCHANGED <<SUPABASE_ENABLED, csv_file, csv_cached, csv_df, table, cache,
                   sb_state_df, click, i, edit, sent, failed, saved, fetchOk, saves,
                   csv_saves, events, edits>>

\* lines 235-243
Bulk ==
    /\ pc = "bulk"
    /\ df' = IF click = "mark" THEN MarkAllSeen(df)
             ELSE IF click = "clear" THEN ClearAllSeen(df)
             ELSE df
    /\ pc' = "render"
    /\ i' = 1
    /\ UNCHANGED <<SUPABASE_ENABLED, csv_file, csv_cached, csv_df, table, cache,
                   sb_state_df, raised, click, edit, sent, failed, saved, fetchOk,
                   saves, csv_saves, events, edits>>

\* the widgets of a row hold something else than their value= defaults (lines
\* 291, 305, 311): the user has set one of them
Touched(row, seen_val, widget, notes_val) ==
    \/ seen_val # IsYes(row.Seen)
    \/ widget # DefaultDate(row.Date)
    \/ notes_val # row.Notes

\* RenderRow handing each written-back row to supabase_upsert (lines 117-123)
RenderRowUpserting ==
    /\ pc = "render"
    /\ i <= Len(df)
    /\ \E seen_val \in BOOLEAN, widget \in {DefaultDate(df[i].Date), D2},
          notes_val \in {df[i].Notes, "", N2} :
          /\ Touched(df[i], seen_val, widget, notes_val) => edits < MaxEdits
          /\ edits' = IF Touched(df[i], seen_val, widget, notes_val) THEN edits + 1 ELSE edits
          /\ df' = [df EXCEPT ![i] = WriteBack(df[i], seen_val, DateVal(seen_val, widget), notes_val)]
          /\ edit' = [i |-> i, seen_val |-> seen_val, widget |-> widget,
                      notes_val |-> notes_val, before |-> df[i].Date]
    /\ sent' = IF SUPABASE_ENABLED THEN Append(sent, Record(df'[i])) ELSE sent
    /\ table' = IF SUPABASE_ENABLED THEN Upsert(table, Record(df'[i])) ELSE table
    /\ i' = i + 1
    /\ UNCHANGED <<SUPABASE_ENABLED, csv_file, csv_cached, csv_df, cache, sb_state_df,
                   raised, pc, click, failed, saved, fetchOk, saves, csv_saves, events>>

\* One pass of the loop of line 246, lines 287-316. Each widget returns what
\* it holds: its value= default (the row's flag, the row's date or today, the
\* row's notes, lines 291, 305, 311) or what the user set: the checkbox either
\* way, the date widget a picked date (also while the box is unchecked and the
\* widget is not asked), the text area no text or a typed text. A row whose
\* widgets the user has set counts against MaxEdits.
RenderRow ==
    /\ pc = "render"
    /\ i <= Len(df)
    /\ \E seen_val \in BOOLEAN, widget \in {DefaultDate(df[i].Date), D2},
          notes_val \in {df[i].Notes, "", N2} :
          /\ Touched(df[i], seen_val, widget, notes_val) => edits < MaxEdits
          /\ edits' = IF Touched(df[i], seen_val, widget, notes_val) THEN edits + 1 ELSE edits
          /\ df' = [df EXCEPT ![i] = WriteBack(df[i], seen_val, DateVal(seen_val, widget), notes_val)]
          /\ edit' = [i |-> i, seen_val |-> seen_val, widget |-> widget,
                      notes_val |-> notes_val, before |-> df[i].Date]
    /\ i' = i + 1
    /\ UNCHANGED <<SUPABASE_ENABLED, csv_file, csv_cached, csv_df, table, cache,
                   sb_state_df, raised, pc, click, sent, failed, saved, fetchOk,
                   saves, csv_saves, events>>

\* The loop is over, lines 318-327: Save to CSV writes the rows over the file
\* (lines 321-323, the path left as it is and writable); on to the save loop when
\* Save Sightings is down, else the run ends.
RenderDone ==
    /\ pc = "render"
    /\ i > Len(df)
    /\ csv_file' = IF click = "csv" THEN to_csv(df) ELSE csv_file
    /\ csv_saves' = IF click = "csv" THEN csv_saves + 1 ELSE csv_saves
    /\ pc' = IF SUPABASE_ENABLED /\ click = "save" THEN "save" ELSE "idle"
    /\ i' = 1
    /\ edit' = NoEdit
    /\ UNCHANGED <<SUPABASE_ENABLED, csv_cached, csv_df, table, cache, sb_state_df,
                   df, raised, click, sent, failed, saved, fetchOk, saves, events, edits>>

\* UpsertRow without the try / except of lines 337-343: a failing upsert ends
\* the script run
UpsertRowUncaught ==
    /\ pc = "save"
    /\ i <= Len(df)
    /\ sent' = Append(sent, Record(df[i]))
    /\ \E ok \in BOOLEAN :
          /\ table' = IF ok THEN Upsert(table, Record(df[i])) ELSE table
          /\ failed' = IF ok THEN failed ELSE failed \cup {i}
          /\ pc' = IF ok THEN pc ELSE "crashed"
    /\ i' = i + 1
    /\ UNCHANGED <<SUPABASE_ENABLED, csv_file, csv_cached, csv_df, cache, sb_state_df,
                   df, raised, click, edit, saved, fetchOk, saves, csv_saves, events, edits>>

\* One pass of the loop of line 328, lines 329-343: the record is built and
\* handed to upsert, which stores it or raises; the exception is caught and
\* reported (line 343) and the loop goes on.
UpsertRow ==
    /\ pc = "save"
    /\ i <= Len(df)
    /\ sent' = Append(sent, Record(df[i]))
    /\ \E ok \in BOOLEAN :
          /\ table' = IF ok THEN Upsert(table, Record(df[i])) ELSE table
          /\ failed' = IF ok THEN failed ELSE failed \cup {i}
    /\ i' = i + 1
    /\ UNCHANGED <<SUPABASE_ENABLED, csv_file, csv_cached, csv_df, cache, sb_state_df,
                   df, raised, pc, click, edit, saved, fetchOk, saves, csv_saves, events, edits>>

\* lines 344-346: st.success, st.cache_data.clear() (every st.cache_data entry:
\* the overlay's and load_data's), st.rerun()
SaveDone ==
    /\ pc = "save"
    /\ i > Len(df)
    /\ cache' = NoCache
    /\ csv_cached' = FALSE
    /\ saved' = [has |-> TRUE, allOk |-> failed = {}, rows |-> df, ref |-> csv_df]
    /\ saves' = saves + 1
    /\ pc' = "rerun"
    /\ UNCHANGED <<SUPABASE_ENABLED, csv_file, csv_df, table, sb_state_df, df, raised,
                   click, i, edit, sent, failed, fetchOk, csv_saves, events, edits>>

Next ==
    \/ Start
    \/ LoadData
    \/ LoadState
    \/ Merge
    \/ Bulk
    \/ RenderRow
    \/ RenderDone
    \/ UpsertRow
    \/ SaveDone

Spec == Init /\ [][Next]_vars

----------------------------------------------------------------------------
(* merge_supabase_state on its own: any reference, any overlay frame *)

InitMerge ==
    /\ SUPABASE_ENABLED = TRUE
    /\ csv_file = <<>>
    /\ csv_cached = TRUE
    /\ csv_df \in RefFrames
    /\ table = {}
    /\ cache = NoCache
    /\ sb_state_df \in OverlayFrames
    /\ df = <<>>
    /\ raised = FALSE
    /\ pc = "merge"
    /\ click = "none"
    /\ i = 1
    /\ edit = NoEdit
    /\ sent = <<>>
    /\ failed = {}
    /\ saved = NoSave
    /\ fetchOk = TRUE
    /\ saves = 0
    /\ csv_saves = 0
    /\ events = 0
    /\ edits = 0

SpecMerge == InitMerge /\ [][Merge]_vars

----------------------------------------------------------------------------
(* Properties *)

\* the three mutable cells of a row
Cells(row) == <<row.Seen, row.Date, row.Notes>>

\* an overlay value that is present and non-empty
Present(v) == v # NULL /\ v # ""

\* the overlay records of species sp in the frame handed to the merge
RecordsOf(sp) ==
    { sb_state_df.rows[k] : k \in {q \in 1..Len(sb_state_df.rows) : sb_state_df.rows[q].species = sp} }

\* what the precedence rule gives for reference row r under overlay record o
Expected(r, o) ==
    << IF o.seen THEN "Yes" ELSE r.Seen,
       IF Present(o.first_seen_date) THEN o.first_seen_date ELSE r.Date,
       IF Present(o.notes) THEN o.notes ELSE r.Notes >>

\* C1: whenever merge_supabase_state returns, its result has one row per
\* reference row, with the species in the reference's order, whatever the
\* overlay holds (also several records of one species).
C1_OneRowPerReferenceRow ==
    (pc = "bulk" /\ ~raised) =>
        /\ Len(df) = Len(csv_df)
        /\ \A k \in 1..Len(df) : df[k].Species = csv_df[k].Species

\* C2: every row the merge returns is a reference row with each of its three
\* cells decided on its own: the overlay record's value where that is present
\* and non-empty (seen = TRUE is "Yes", seen = FALSE is empty), the reference's
\* value otherwise; a species without overlay record keeps its three reference
\* cells, and every reference row and every overlay record of its species is
\* answered by such a row. In particular a record with seen = FALSE leaves a
\* reference "Yes" in place.
C2_FieldLevelPrecedence ==
    (pc = "bulk" /\ ~raised) =>
        /\ \A k \in 1..Len(df) :
              \E j \in 1..Len(csv_df) :
                 /\ df[k].Species = csv_df[j].Species
                 /\ IF RecordsOf(csv_df[j].Species) = {}
                    THEN Cells(df[k]) = Cells(csv_df[j])
                    ELSE \E o \in RecordsOf(csv_df[j].Species) :
                            Cells(df[k]) = Expected(csv_df[j], o)
        /\ \A j \in 1..Len(csv_df) :
              /\ RecordsOf(csv_df[j].Species) = {} =>
                    \E k \in 1..Len(df) :
                       df[k].Species = csv_df[j].Species /\ Cells(df[k]) = Cells(csv_df[j])
              /\ \A o \in RecordsOf(csv_df[j].Species) :
                    \E k \in 1..Len(df) :
                       /\ df[k].Species = csv_df[j].Species
                       /\ Cells(df[k]) = Expected(csv_df[j], o)
        /\ \A k \in 1..Len(df), j \in 1..Len(csv_df) :
              (df[k].Species = csv_df[j].Species /\ csv_df[j].Seen = "Yes") => df[k].Seen = "Yes"

\* C2's case: a record with seen = FALSE and notes of its own met a reference
\* row with "Yes", a date and other notes; the row kept the reference's flag and
\* date and took the record's notes.
C2_Witness ==
    /\ pc = "bulk" /\ ~raised
    /\ \E k \in 1..Len(df), j \in 1..Len(csv_df) :
          /\ df[k].Species = csv_df[j].Species
          /\ csv_df[j].Seen = "Yes" /\ csv_df[j].Notes = N1
          /\ \E o \in RecordsOf(csv_df[j].Species) : ~o.seen /\ o.notes = N2
          /\ Cells(df[k]) = <<"Yes", csv_df[j].Date, N2>>

\* C3: in every unified row, at every point of a session, the first-seen date
\* is non-empty only if the row's seen flag is "Yes".
C3_DateOnlyWhenSeen ==
    \A k \in 1..Len(df) : df[k].Date # "" => IsYes(df[k].Seen)

\* C4: a write-back with the box unchecked leaves the row unseen with no date,
\* whatever date the row held and whatever date the date widget holds, and
\* with the notes the text area holds.
C4_UncheckedClearsDateKeepsNotes ==
    (pc = "render" /\ edit.i # 0 /\ ~edit.seen_val) =>
        /\ df[edit.i].Seen = ""
        /\ df[edit.i].Date = ""
        /\ df[edit.i].Notes = edit.notes_val

\* C4's case: the box was unchecked on a row that held a date, the date widget
\* held a picked date and the text area held a typed text, other than the
\* row's own notes, which the row now holds.
C4_Witness ==
    /\ pc = "render" /\ edit.i # 0 /\ ~edit.seen_val
    /\ edit.before = D1
    /\ edit.widget = D2
    /\ edit.notes_val = N2
    /\ csv_df[edit.i].Notes # N2
    /\ df[edit.i].Notes = N2

\* C5: no update record carries "" as first_seen_date, every record with
\* seen = FALSE carries null, and a finished save has built one record per
\* unified row, in the rows' order.
C5_OneRecordPerRowNullDate ==
    /\ \A k \in 1..Len(sent) :
          /\ sent[k].first_seen_date # ""
          /\ ~sent[k].seen => sent[k].first_seen_date = NULL
    /\ pc = "rerun" =>
          /\ Len(sent) = Len(df)
          /\ \A k \in 1..Len(df) : sent[k].species = df[k].Species

\* C5's case: a finished save of two rows, one unseen (its reference row held
\* a date) with a null date, one seen with its date.
C5_Witness ==
    /\ pc = "rerun"
    /\ Len(sent) = 2
    /\ \E k \in 1..2 :
          ~sent[k].seen /\ sent[k].first_seen_date = NULL /\ csv_df[k].Date = D1
    /\ \E k \in 1..2 : sent[k].seen /\ sent[k].first_seen_date \in IsoDates

\* C6: a failing upsert never ends the run: the save loop has attempted the
\* rows before its index whatever failed, and a finished save has attempted
\* every row, cleared the cache and asked for the rerun.
C6_FailuresDoNotStopTheSave ==
    /\ pc # "crashed"
    /\ pc = "save" => Len(sent) = i - 1
    /\ pc = "rerun" =>
          /\ \A k \in 1..Len(df) : k <= Len(sent) /\ sent[k] = Record(df[k])
          /\ failed \subseteq 1..Len(df)
          /\ ~cache.valid
          /\ saved.has

\* C6's case: the first row's upsert failed, the second row's was attempted
\* and stored, and the save finished.
C6_Witness ==
    /\ pc = "rerun"
    /\ failed = {1}
    /\ Len(sent) = 2
    /\ sent[2] \in table
    /\ sent[1] \notin table

\* C7: merge_supabase_state never raises.
C7_MergeNeverRaises == ~raised

\* the rows of a unified view as an overlay frame: "Yes" is TRUE, anything else
\* FALSE, the date and the notes as they are
AsOverlay(rows) ==
    [none |-> FALSE, cols |-> AllCols,
     rows |-> [k \in 1..Len(rows) |->
                 [species |-> rows[k].Species, seen |-> rows[k].Seen = "Yes",
                  first_seen_date |-> rows[k].Date, notes |-> rows[k].Notes]]]

\* C8: merging the reference with the merge's own result, taken as an overlay,
\* gives that result again: the same rows with the same three cells.
C8_MergeFixedPoint ==
    (pc = "bulk" /\ ~raised) =>
        LET again == merge_supabase_state(csv_df, AsOverlay(df))
        IN  /\ ~again.raised
            /\ Len(again.rows) = Len(df)
            /\ \A k \in 1..Len(df) :
                  /\ again.rows[k].Species = df[k].Species
                  /\ Cells(again.rows[k]) = Cells(df[k])

\* C8's case: the overlay changed a row (the flag came from the overlay, the
\* notes from the reference) and the second merge returns the first one's rows.
C8_Witness ==
    /\ pc = "bulk" /\ ~raised
    /\ Len(df) = Len(csv_df)
    /\ \E k \in 1..Len(df) :
          df[k].Seen = "Yes" /\ csv_df[k].Seen = "" /\ df[k].Notes = N1
    /\ merge_supabase_state(csv_df, AsOverlay(df)).rows = df

\* C9: an update record reaches the store only in the save loop of a run that
\* Save Sightings triggered, with Supabase enabled.
C9_SentOnlyOnSave ==
    [][ ((Len(sent') > Len(sent)) \/ table' # table)
          => (SUPABASE_ENABLED /\ click = "save" /\ pc = "save") ]_vars

\* C9's case: a run that a bulk button triggered has rendered every row, its
\* rows differ from the merged view, and nothing was sent.
C9_Witness ==
    /\ pc = "render" /\ i > Len(df)
    /\ click = "mark"
    /\ SUPABASE_ENABLED
    /\ df # merge_supabase_state(csv_df, sb_state_df).rows
    /\ \E k \in 1..Len(df) : df[k].Seen = "" /\ df[k].Notes = N2
    /\ sent = <<>>

\* C10: in the run that follows a save whose upserts all succeeded, with the
\* overlay fetched and the reference the same as at save time, the merged view
\* holds for every species the three cells the rows held at save time.
C10_SaveThenReload ==
    (pc = "bulk" /\ ~raised /\ saved.has /\ saved.allOk /\ fetchOk /\ csv_df = saved.ref) =>
        /\ Len(df) = Len(saved.rows)
        /\ \A k \in 1..Len(df) : Cells(df[k]) = Cells(saved.rows[k])

====
